---- MODULE Spec2Model ----
(***************************************************************************)
(* Model of backend/src/scripts/typhoon_ocr_runner.py: one process run of  *)
(* the OCR runner, from interpreter start to process exit.                 *)
(*                                                                         *)
(* Text is modelled as a sequence of one-character strings, so that        *)
(* int(), json.dumps and the truthiness tests act on the characters.       *)
(* Python values are tagged records: [t |-> "None"], [t |-> "str", v],     *)
(* [t |-> "int", v], [t |-> "bytes"].                                      *)
(***************************************************************************)
EXTENDS Integers, Sequences, FiniteSets, TLC

VARIABLES
    argv,        \* sys.argv; argv[1] is the program name (Python's argv[0])
    environ,     \* os.environ: a mapping defined on the variables that are set
    pc,          \* position of the run
    file_path,   \* local of main()
    page_num,    \* local of main()
    kwargs,      \* local of main()
    markdown,    \* local of main(): what ocr_document returned
    exc,         \* the exception in flight, if any
    stdout,      \* characters written to sys.stdout
    stderr,      \* text written to sys.stderr
    exit_code,   \* process exit status (0 unless sys.exit is reached)
    ocr_calls,   \* history: the kwargs of every ocr_document invocation
    ocr_outcome  \* history: how the ocr_document invocation ended

vars == <<argv, environ, pc, file_path, page_num, kwargs, markdown, exc,
          stdout, stderr, exit_code, ocr_calls, ocr_outcome>>

(***************************************************************************)
(* Bounds                                                                  *)
(***************************************************************************)
MaxArgLen == 3
MaxMarkdownLen == 1

ArgChars == {"0", "3", "-", "+", " ", "_", "a"}
MarkdownChars == {"#", "\"", "\\", "\n", "U+00E9"}

SeqsUpTo(S, n) == UNION {[1..k -> S] : k \in 0..n}

(***************************************************************************)
(* Python values                                                           *)
(***************************************************************************)
None == [t |-> "None"]
Str(s) == [t |-> "str", v |-> s]
IntVal(n) == [t |-> "int", v |-> n]
Bytes == [t |-> "bytes"]

\* Python truth value testing, as used by `and`, `or` and `if`.
Truthy(x) ==
    CASE x.t = "None" -> FALSE
      [] x.t = "str" -> x.v # <<>>
      [] x.t = "int" -> x.v # 0
      [] OTHER -> TRUE

\* a or b
Or(a, b) == IF Truthy(a) THEN a ELSE b

\* os.getenv(name): the value, or None when the variable is not set.
getenv(name) == IF name \in DOMAIN environ THEN Str(environ[name]) ELSE None

NoExc == [type |-> "none", msg |-> <<>>]
Raise(type, msg) == [type |-> type, msg |-> msg]

(***************************************************************************)
(* int(str)                                                                *)
(***************************************************************************)
PyWhitespace == {" ", "\t", "\n", "\r", "\f"}
Digits == {"0", "1", "2", "3", "4", "5", "6", "7", "8", "9"}

DigitVal(c) ==
    CASE c = "0" -> 0 [] c = "1" -> 1 [] c = "2" -> 2 [] c = "3" -> 3
      [] c = "4" -> 4 [] c = "5" -> 5 [] c = "6" -> 6 [] c = "7" -> 7
      [] c = "8" -> 8 [] c = "9" -> 9

RECURSIVE LStrip(_)
LStrip(s) == IF s # <<>> /\ Head(s) \in PyWhitespace THEN LStrip(Tail(s)) ELSE s

RECURSIVE RStrip(_)
RStrip(s) ==
    IF s # <<>> /\ s[Len(s)] \in PyWhitespace
    THEN RStrip(SubSeq(s, 1, Len(s) - 1))
    ELSE s

\* The digit scan of int(): digits with single underscores between them.
RECURSIVE ScanDigits(_, _, _, _)
ScanDigits(s, prevUnderscore, seenDigit, acc) ==
    IF s = <<>>
    THEN IF seenDigit /\ ~prevUnderscore
         THEN [ok |-> TRUE, val |-> acc]
         ELSE [ok |-> FALSE, val |-> 0]
    ELSE IF Head(s) = "_"
         THEN IF prevUnderscore \/ ~seenDigit
              THEN [ok |-> FALSE, val |-> 0]
              ELSE ScanDigits(Tail(s), TRUE, seenDigit, acc)
         ELSE IF Head(s) \in Digits
              THEN ScanDigits(Tail(s), FALSE, TRUE, acc * 10 + DigitVal(Head(s)))
              ELSE [ok |-> FALSE, val |-> 0]

\* A variant of int() that drops the sign.
PyIntUnsigned(s) ==
    LET body == RStrip(LStrip(s))
        signed == body # <<>> /\ Head(body) \in {"+", "-"}
    IN  ScanDigits(IF signed THEN Tail(body) ELSE body, FALSE, FALSE, 0)

\* int(s) in base 10: [ok |-> TRUE, val |-> n], or ok = FALSE for ValueError.
PyInt(s) ==
    LET body == RStrip(LStrip(s))
        signed == body # <<>> /\ Head(body) \in {"+", "-"}
        r == ScanDigits(IF signed THEN Tail(body) ELSE body, FALSE, FALSE, 0)
    IN  IF r.ok /\ signed /\ Head(body) = "-"
        THEN [ok |-> TRUE, val |-> 0 - r.val]
        ELSE r

\* repr(s) of a str without quotes, backslashes or unprintable characters.
PyRepr(s) == <<"'">> \o s \o <<"'">>

IntErrorMessage(s) == <<"invalid literal for int() with base 10: ">> \o PyRepr(s)

UsageMessage == <<"Usage: typhoon_ocr_runner.py <file_path> [page_num]">>

(***************************************************************************)
(* json.dumps (ensure_ascii=True, default separators)                      *)
(***************************************************************************)
EscapeChar(c) ==
    CASE c = "\"" -> <<"\\", "\"">>
      [] c = "\\" -> <<"\\", "\\">>
      [] c = "\n" -> <<"\\", "n">>
      [] c = "U+00E9" -> <<"\\", "u", "0", "0", "e", "9">>
      [] OTHER -> <<c>>

RECURSIVE EscapeAll(_)
EscapeAll(s) == IF s = <<>> THEN <<>> ELSE EscapeChar(Head(s)) \o EscapeAll(Tail(s))

\* A variant of the string encoder that copies the characters unescaped.
DumpsStrRaw(s) == <<"\"">> \o s \o <<"\"">>

DumpsStr(s) == <<"\"">> \o EscapeAll(s) \o <<"\"">>

Serializable(x) == x.t \in {"None", "str", "int"}

DumpsValue(x) ==
    CASE x.t = "None" -> <<"n", "u", "l", "l">>
      [] x.t = "str" -> DumpsStr(x.v)
      [] OTHER -> <<>>

MarkdownKey == <<"m", "a", "r", "k", "d", "o", "w", "n">>

\* json.dumps({"markdown": x})
DumpsResult(x) ==
    <<"{">> \o DumpsStr(MarkdownKey) \o <<":", " ">> \o DumpsValue(x) \o <<"}">>

TypeErrorMessage == <<"Object of type bytes is not JSON serializable">>

(***************************************************************************)
(* Parameter resolution                                                    *)
(***************************************************************************)
DefaultBaseUrl == <<"https://api.opentyphoon.ai/v1">>

\* A variant that consults OCR_ENDPOINT first.
ResolveBaseUrlSwapped ==
    Or(Or(getenv("OCR_ENDPOINT"), getenv("OCR_BASE_URL")), Str(DefaultBaseUrl))

ResolveBaseUrl ==
    Or(Or(getenv("OCR_BASE_URL"), getenv("OCR_ENDPOINT")), Str(DefaultBaseUrl))

\* A variant that consults TYPHOON_OCR_API_KEY first.
ResolveApiKeySwapped ==
    Or(Or(getenv("TYPHOON_OCR_API_KEY"), getenv("OCR_API_KEY")), getenv("OPENAI_API_KEY"))

ResolveApiKey ==
    Or(Or(getenv("OCR_API_KEY"), getenv("TYPHOON_OCR_API_KEY")), getenv("OPENAI_API_KEY"))

\* A variant that treats an empty second argument as a page number.
HasPageArgEmptyToo(a) == Len(a) >= 3

\* len(sys.argv) >= 3 and sys.argv[2]
HasPageArg(a) == Len(a) >= 3 /\ Truthy(Str(a[3]))

\* A variant whose length test is off by one.
ArgsMissingOffByOne(a) == Len(a) < 1

\* len(sys.argv) < 2
ArgsMissing(a) == Len(a) < 2

BuildKwargsDict(fp, bu, ak, pn) ==
    LET keys == {"pdf_or_image_path", "base_url"}
                \cup (IF Truthy(ak) THEN {"api_key"} ELSE {})
                \cup (IF pn.t # "None" THEN {"page_num"} ELSE {})
    IN  [k \in keys |->
            CASE k = "pdf_or_image_path" -> fp
              [] k = "base_url" -> bu
              [] k = "api_key" -> ak
              [] k = "page_num" -> pn]

EmptyDict == [k \in {} |-> None]

(***************************************************************************)
(* Inputs                                                                  *)
(***************************************************************************)
ProgName == <<"typhoon_ocr_runner.py">>
FilePaths == {<<"scan.pdf">>}
PageArgs == SeqsUpTo(ArgChars, MaxArgLen)

ArgvAll ==
    {<<ProgName>>}
    \cup {<<ProgName, f>> : f \in FilePaths}
    \cup {<<ProgName, f, p>> : f \in FilePaths, p \in PageArgs}

ArgvFew ==
    {<<ProgName>>}
    \cup {<<ProgName, f>> : f \in FilePaths}
    \cup {<<ProgName, f, <<"3">>>> : f \in FilePaths}

EnvNames ==
    {"OCR_BASE_URL", "OCR_ENDPOINT", "OCR_API_KEY", "TYPHOON_OCR_API_KEY", "OPENAI_API_KEY"}

\* The value a variable holds when it is set and non-empty: one per variable.
EnvValue(n) ==
    CASE n = "OCR_BASE_URL" -> <<"http://base">>
      [] n = "OCR_ENDPOINT" -> <<"http://endpoint">>
      [] n = "OCR_API_KEY" -> <<"key-ocr">>
      [] n = "TYPHOON_OCR_API_KEY" -> <<"key-typhoon">>
      [] n = "OPENAI_API_KEY" -> <<"key-openai">>

\* Every variable unset, set to the empty string, or set to its value.
EnvAll ==
    UNION {{[n \in set |-> IF n \in empty THEN <<>> ELSE EnvValue(n)] :
               empty \in SUBSET set} : set \in SUBSET EnvNames}

EnvFew ==
    {e \in EnvAll :
        /\ DOMAIN e \in {{}, EnvNames}
        /\ ((\A n \in DOMAIN e : e[n] = <<>>) \/ (\A n \in DOMAIN e : e[n] # <<>>))}

MarkdownTexts == SeqsUpTo(MarkdownChars, MaxMarkdownLen)

\* What ocr_document may do: return a value, or raise an Exception.
OcrReturns == {Str(s) : s \in MarkdownTexts} \cup {None, Bytes}
OcrErrors == {<<"rate limited">>, <<>>}
OcrOutcomes ==
    {[kind |-> "return", val |-> r, msg |-> <<>>] : r \in OcrReturns}
    \cup {[kind |-> "raise", val |-> None, msg |-> m] : m \in OcrErrors}
NoOutcome == [kind |-> "none", val |-> None, msg |-> <<>>]

(***************************************************************************)
(* The run                                                                 *)
(***************************************************************************)
\* The arguments and the environment are read independently of each other
\* (lines 9-15 and 17-22), so the start states vary one in full against a few
\* values of the other: every argv with three environments, and every
\* environment with three argvs.
Init ==
    /\ \/ argv \in ArgvAll /\ environ \in EnvFew
       \/ argv \in ArgvFew /\ environ \in EnvAll
    /\ pc = "check_args"
    /\ file_path = None
    /\ page_num = None
    /\ kwargs = EmptyDict
    /\ markdown = None
    /\ exc = NoExc
    /\ stdout = <<>>
    /\ stderr = <<>>
    /\ exit_code = 0
    /\ ocr_calls = <<>>
    /\ ocr_outcome = NoOutcome

\* main(), lines 9-10
CheckArgs ==
    /\ pc = "check_args"
    /\ IF ArgsMissing(argv)
       THEN /\ exc' = Raise("ValueError", UsageMessage)
            /\ pc' = "except"
       ELSE /\ exc' = exc
            /\ pc' = "parse_page"
    /\ UNCHANGED <<argv, environ, file_path, page_num, kwargs, markdown,
                   stdout, stderr, exit_code, ocr_calls, ocr_outcome>>

\* A variant that treats an unparsable page argument as absent.
ParsePageNumLenient ==
    /\ pc = "parse_page"
    /\ file_path' = Str(argv[2])
    /\ page_num' = IF HasPageArg(argv) /\ PyInt(argv[3]).ok
                   THEN IntVal(PyInt(argv[3]).val)
                   ELSE None
    /\ pc' = "build_kwargs"
    /\ UNCHANGED <<argv, environ, kwargs, markdown, exc, stdout, stderr, exit_code,
                   ocr_calls, ocr_outcome>>

\* main(), lines 12-15
ParsePageNum ==
    /\ pc = "parse_page"
    /\ IF Len(argv) < 2
       THEN /\ exc' = Raise("IndexError", <<"list index out of range">>)
            /\ pc' = "except"
            /\ UNCHANGED <<file_path, page_num>>
       ELSE /\ file_path' = Str(argv[2])
            /\ IF HasPageArg(argv)
               THEN IF PyInt(argv[3]).ok
                    THEN /\ page_num' = IntVal(PyInt(argv[3]).val)
                         /\ exc' = exc
                         /\ pc' = "build_kwargs"
                    ELSE /\ page_num' = None
                         /\ exc' = Raise("ValueError", IntErrorMessage(argv[3]))
                         /\ pc' = "except"
               ELSE /\ page_num' = None
                    /\ exc' = exc
                    /\ pc' = "build_kwargs"
    /\ UNCHANGED <<argv, environ, kwargs, markdown, stdout, stderr, exit_code,
                   ocr_calls, ocr_outcome>>

\* main(), lines 17-28
BuildKwargs ==
    /\ pc = "build_kwargs"
    /\ kwargs' = BuildKwargsDict(file_path, ResolveBaseUrl, ResolveApiKey, page_num)
    /\ pc' = "call_ocr"
    /\ UNCHANGED <<argv, environ, file_path, page_num, markdown, exc, stdout,
                   stderr, exit_code, ocr_calls, ocr_outcome>>

\* main(), line 30: the call either returns a value or raises.
CallOcrDocument ==
    /\ pc = "call_ocr"
    /\ \E out \in OcrOutcomes :
          /\ ocr_calls' = Append(ocr_calls, kwargs)
          /\ ocr_outcome' = out
          /\ IF out.kind = "return"
             THEN /\ markdown' = out.val
                  /\ exc' = exc
                  /\ pc' = "print_result"
             ELSE /\ markdown' = markdown
                  /\ exc' = Raise("Exception", out.msg)
                  /\ pc' = "except"
    /\ UNCHANGED <<argv, environ, file_path, page_num, kwargs, stdout, stderr,
                   exit_code>>

\* main(), line 32, and the normal end of the script
PrintResult ==
    /\ pc = "print_result"
    /\ IF Serializable(markdown)
       THEN /\ stdout' = stdout \o DumpsResult(markdown) \o <<"\n">>
            /\ exc' = exc
            /\ pc' = "exited"
       ELSE /\ stdout' = stdout
            /\ exc' = Raise("TypeError", TypeErrorMessage)
            /\ pc' = "except"
    /\ UNCHANGED <<argv, environ, file_path, page_num, kwargs, markdown, stderr,
                   exit_code, ocr_calls, ocr_outcome>>

\* A variant of the handler that prints without file=sys.stderr.
HandleExceptionToStdout ==
    /\ pc = "except"
    /\ stdout' = stdout \o exc.msg \o <<"\n">>
    /\ exit_code' = 1
    /\ pc' = "exited"
    /\ UNCHANGED <<argv, environ, file_path, page_num, kwargs, markdown, exc,
                   stderr, ocr_calls, ocr_outcome>>

\* A variant of the handler that exits without printing.
HandleExceptionSilent ==
    /\ pc = "except"
    /\ exit_code' = 1
    /\ pc' = "exited"
    /\ UNCHANGED <<argv, environ, file_path, page_num, kwargs, markdown, exc,
                   stdout, stderr, ocr_calls, ocr_outcome>>

\* A variant of the handler that prints the exception's type, not its message.
HandleExceptionTypeName ==
    /\ pc = "except"
    /\ stderr' = stderr \o <<exc.type, "\n">>
    /\ exit_code' = 1
    /\ pc' = "exited"
    /\ UNCHANGED <<argv, environ, file_path, page_num, kwargs, markdown, exc,
                   stdout, ocr_calls, ocr_outcome>>

\* __main__, lines 38-40
HandleException ==
    /\ pc = "except"
    /\ stderr' = stderr \o exc.msg \o <<"\n">>
    /\ exit_code' = 1
    /\ pc' = "exited"
    /\ UNCHANGED <<argv, environ, file_path, page_num, kwargs, markdown, exc,
                   stdout, ocr_calls, ocr_outcome>>

Next ==
    \/ CheckArgs
    \/ ParsePageNum
    \/ BuildKwargs
    \/ CallOcrDocument
    \/ PrintResult
    \/ HandleException

Spec == Init /\ [][Next]_vars

(***************************************************************************)
(* Reading JSON text back (RFC 8259): an object whose members are strings  *)
(* or null.  Used to state what stdout holds.                              *)
(***************************************************************************)
JsonWs == {" ", "\n", "\t", "\r"}
JsonFail == [ok |-> FALSE, val |-> None, next |-> 0]

RECURSIVE ReadString(_, _, _)
ReadString(t, i, acc) ==
    IF i > Len(t) THEN JsonFail
    ELSE IF t[i] = "\"" THEN [ok |-> TRUE, val |-> Str(acc), next |-> i + 1]
    ELSE IF t[i] = "\\"
         THEN IF i + 1 > Len(t) THEN JsonFail
              ELSE IF t[i + 1] \in {"\"", "\\", "/"}
                   THEN ReadString(t, i + 2, Append(acc, t[i + 1]))
              ELSE IF t[i + 1] = "n" THEN ReadString(t, i + 2, Append(acc, "\n"))
              ELSE IF t[i + 1] = "t" THEN ReadString(t, i + 2, Append(acc, "\t"))
              ELSE IF t[i + 1] = "r" THEN ReadString(t, i + 2, Append(acc, "\r"))
              ELSE IF /\ t[i + 1] = "u"
                      /\ i + 5 <= Len(t)
                      /\ SubSeq(t, i + 2, i + 5) = <<"0", "0", "e", "9">>
                   THEN ReadString(t, i + 6, Append(acc, "U+00E9"))
              ELSE JsonFail
    ELSE IF t[i] \in {"\n", "\t", "\r", "\f"} THEN JsonFail
    ELSE ReadString(t, i + 1, Append(acc, t[i]))

RECURSIVE SkipWs(_, _)
SkipWs(t, i) == IF i <= Len(t) /\ t[i] \in JsonWs THEN SkipWs(t, i + 1) ELSE i

ReadValue(t, i) ==
    IF i <= Len(t) /\ t[i] = "\""
    THEN ReadString(t, i + 1, <<>>)
    ELSE IF i + 3 <= Len(t) /\ SubSeq(t, i, i + 3) = <<"n", "u", "l", "l">>
         THEN [ok |-> TRUE, val |-> None, next |-> i + 4]
         ELSE JsonFail

RECURSIVE ReadMembers(_, _, _)
ReadMembers(t, i, acc) ==
    LET k == IF i <= Len(t) /\ t[i] = "\"" THEN ReadString(t, i + 1, <<>>) ELSE JsonFail
        c == SkipWs(t, k.next)
        v == ReadValue(t, SkipWs(t, c + 1))
        e == SkipWs(t, v.next)
        got == Append(acc, [key |-> k.val.v, val |-> v.val])
    IN  IF ~k.ok \/ c > Len(t) THEN [ok |-> FALSE, members |-> <<>>, next |-> 0]
        ELSE IF t[c] # ":" \/ ~v.ok \/ e > Len(t)
             THEN [ok |-> FALSE, members |-> <<>>, next |-> 0]
        ELSE IF t[e] = "}" THEN [ok |-> TRUE, members |-> got, next |-> e + 1]
        ELSE IF t[e] = "," THEN ReadMembers(t, SkipWs(t, e + 1), got)
        ELSE [ok |-> FALSE, members |-> <<>>, next |-> 0]

\* The whole text is one JSON object (surrounding whitespace allowed).
JsonLoadsObject(t) ==
    LET i == SkipWs(t, 1)
        j == SkipWs(t, i + 1)
        m == IF j <= Len(t) /\ t[j] = "}"
             THEN [ok |-> TRUE, members |-> <<>>, next |-> j + 1]
             ELSE ReadMembers(t, j, <<>>)
    IN  IF i <= Len(t) /\ t[i] = "{" /\ m.ok /\ SkipWs(t, m.next) = Len(t) + 1
        THEN [ok |-> TRUE, members |-> m.members]
        ELSE [ok |-> FALSE, members |-> <<>>]

(***************************************************************************)
(* Integer literals, stated without reference to the scan of int()         *)
(***************************************************************************)
\* Whitespace, an optional sign, then digits with single underscores inside.
IsIntegerLiteral(s) ==
    \E i \in 1..Len(s), j \in 1..Len(s) :
        /\ i <= j
        /\ \A k \in 1..(i - 1) : s[k] \in PyWhitespace
        /\ \A k \in (j + 1)..Len(s) : s[k] \in PyWhitespace
        /\ LET core == SubSeq(s, i, j)
               d == IF core[1] \in {"+", "-"} THEN Tail(core) ELSE core
           IN  /\ d # <<>>
               /\ \A k \in 1..Len(d) : d[k] \in Digits \cup {"_"}
               /\ d[1] \in Digits
               /\ d[Len(d)] \in Digits
               /\ \A k \in 1..(Len(d) - 1) : ~(d[k] = "_" /\ d[k + 1] = "_")

\* str(n) for a natural number n
RECURSIVE NatToDecimal(_)
NatToDecimal(n) ==
    LET digit == CHOOSE c \in Digits : DigitVal(c) = n % 10
    IN  IF n < 10 THEN <<digit>> ELSE Append(NatToDecimal(n \div 10), digit)

\* str(n) for an integer n
ToDecimal(n) == IF n < 0 THEN <<"-">> \o NatToDecimal(0 - n) ELSE NatToDecimal(n)

\* The text str() gives some integer: "0", or an optional minus and no leading zero.
IsCanonicalDecimal(s) ==
    \/ s = <<"0">>
    \/ LET d == IF s # <<>> /\ s[1] = "-" THEN Tail(s) ELSE s
       IN  /\ d # <<>>
           /\ \A k \in 1..Len(d) : d[k] \in Digits
           /\ d[1] # "0"

(***************************************************************************)
(* Properties                                                              *)
(***************************************************************************)
Exited == pc = "exited"
HasSecondArg == Len(argv) >= 3
NonEmptyEnv(n) == n \in DOMAIN environ /\ environ[n] # <<>>

\* C1: started with no positional argument, the run never invokes
\* ocr_document and never writes to stdout, and it ends with exit code 1 and
\* the usage message on stderr.
C1_NoArgumentUsageError ==
    Len(argv) = 1 =>
        /\ ocr_calls = <<>>
        /\ stdout = <<>>
        /\ Exited =>
              /\ exit_code = 1
              /\ stderr = <<"Usage: typhoon_ocr_runner.py <file_path> [page_num]", "\n">>

C1_Witness == Len(argv) = 1 /\ Exited /\ stderr # <<>>

\* C2: when ocr_document raised, the run ends with the exception's message
\* on stderr, exit code 1 and nothing on stdout.
C2_OcrFailureReported ==
    ocr_outcome.kind = "raise" =>
        /\ stdout = <<>>
        /\ Exited =>
              /\ stderr = ocr_outcome.msg \o <<"\n">>
              /\ exit_code = 1

C2_Witness ==
    /\ Exited
    /\ ocr_outcome.kind = "raise"
    /\ ocr_outcome.msg = <<"rate limited">>
    /\ stderr = <<"rate limited", "\n">>

\* C3: when ocr_document returned a string, the run ends with stdout holding
\* exactly one JSON object whose only member is markdown with that string as
\* value, nothing on stderr, and exit code 0.
C3_SuccessPrintsMarkdownJson ==
    (Exited /\ ocr_outcome.kind = "return" /\ ocr_outcome.val.t = "str") =>
        /\ JsonLoadsObject(stdout).ok
        /\ JsonLoadsObject(stdout).members
              = <<[key |-> MarkdownKey, val |-> Str(ocr_outcome.val.v)]>>
        /\ stderr = <<>>
        /\ exit_code = 0

C3_Witness ==
    /\ Exited
    /\ ocr_outcome.kind = "return"
    /\ ocr_outcome.val.t = "str"
    /\ \E i \in 1..Len(ocr_outcome.val.v) : ocr_outcome.val.v[i] \in {"\"", "\\", "\n"}
    /\ stdout # <<>>

\* C4: every step that writes to stdout starts in a state where ocr_document
\* has been invoked and has returned without error; and a run that ends with
\* exit code 1 has written nothing to stdout.
C4_StdoutOnlyAfterOcrReturned ==
    /\ [][stdout' # stdout => (ocr_calls # <<>> /\ ocr_outcome.kind = "return")]_vars
    /\ []((Exited /\ exit_code = 1) => stdout = <<>>)

C4_Witness ==
    /\ Exited
    /\ exit_code = 1
    /\ ocr_outcome.kind = "return"
    /\ stdout = <<>>

\* C5: with the second argument absent or empty the run invokes ocr_document
\* without a page_num parameter; with the second argument the decimal text of
\* an integer, ocr_document is invoked with page_num equal to that integer
\* ("3" gives 3).
C5_PageNumFromSecondArgument ==
    /\ (Len(argv) >= 2 /\ (~HasSecondArg \/ argv[3] = <<>>)) =>
          /\ \A i \in DOMAIN ocr_calls : "page_num" \notin DOMAIN ocr_calls[i]
          /\ Exited => ocr_calls # <<>>
    /\ (HasSecondArg /\ IsCanonicalDecimal(argv[3])) =>
          /\ \A i \in DOMAIN ocr_calls :
                /\ "page_num" \in DOMAIN ocr_calls[i]
                /\ ocr_calls[i]["page_num"].t = "int"
                /\ ToDecimal(ocr_calls[i]["page_num"].v) = argv[3]
                /\ argv[3] = <<"3">> => ocr_calls[i]["page_num"].v = 3
          /\ Exited => ocr_calls # <<>>

C5_Witness ==
    /\ HasSecondArg
    /\ argv[3] = <<"3">>
    /\ ocr_calls # <<>>
    /\ "page_num" \in DOMAIN ocr_calls[1]

\* C6: the base_url of every ocr_document invocation is the first non-empty
\* of OCR_BASE_URL, OCR_ENDPOINT, else the default endpoint; it is never empty.
C6_BaseUrlPrecedence ==
    \A i \in DOMAIN ocr_calls :
        /\ ocr_calls[i]["base_url"].t = "str"
        /\ ocr_calls[i]["base_url"].v # <<>>
        /\ ocr_calls[i]["base_url"].v =
              IF NonEmptyEnv("OCR_BASE_URL") THEN environ["OCR_BASE_URL"]
              ELSE IF NonEmptyEnv("OCR_ENDPOINT") THEN environ["OCR_ENDPOINT"]
              ELSE <<"https://api.opentyphoon.ai/v1">>

C6_Witness ==
    /\ ocr_calls # <<>>
    /\ NonEmptyEnv("OCR_BASE_URL")
    /\ NonEmptyEnv("OCR_ENDPOINT")
    /\ ocr_calls[1]["base_url"].v = environ["OCR_BASE_URL"]

\* C7: every ocr_document invocation carries api_key exactly when one of
\* OCR_API_KEY, TYPHOON_OCR_API_KEY, OPENAI_API_KEY is non-empty, and then its
\* value is the first non-empty of them in that order.
C7_ApiKeyPrecedence ==
    \A i \in DOMAIN ocr_calls :
        /\ "api_key" \in DOMAIN ocr_calls[i]
              <=> \E n \in {"OCR_API_KEY", "TYPHOON_OCR_API_KEY", "OPENAI_API_KEY"} :
                     NonEmptyEnv(n)
        /\ "api_key" \in DOMAIN ocr_calls[i] =>
              /\ ocr_calls[i]["api_key"].t = "str"
              /\ ocr_calls[i]["api_key"].v =
                    IF NonEmptyEnv("OCR_API_KEY") THEN environ["OCR_API_KEY"]
                    ELSE IF NonEmptyEnv("TYPHOON_OCR_API_KEY")
                         THEN environ["TYPHOON_OCR_API_KEY"]
                    ELSE environ["OPENAI_API_KEY"]

C7_Witness ==
    /\ ocr_calls # <<>>
    /\ NonEmptyEnv("OCR_API_KEY")
    /\ NonEmptyEnv("TYPHOON_OCR_API_KEY")
    /\ NonEmptyEnv("OPENAI_API_KEY")
    /\ ocr_calls[1]["api_key"].v = environ["OCR_API_KEY"]

\* C8: ocr_document is invoked at most once, and a run that has ended has
\* written to exactly one of stdout and stderr.
C8_OneCallOneStream ==
    /\ Len(ocr_calls) <= 1
    /\ Exited => ((stdout # <<>>) # (stderr # <<>>))

C8_Witness == Exited /\ Len(ocr_calls) = 1 /\ stdout # <<>> /\ stderr = <<>>

\* C9 as stated: every page_num handed to ocr_document is at least 1.
C9_PageNumPositive ==
    \A i \in DOMAIN ocr_calls :
        "page_num" \in DOMAIN ocr_calls[i] => ocr_calls[i]["page_num"].v >= 1

\* C9 amended: every page_num handed to ocr_document is the integer the
\* second argument denotes, zero and negative values included; it is at least
\* 1 exactly when that argument has no minus sign and has a non-zero digit.
C9_PageNumSignFollowsArgument ==
    \A i \in DOMAIN ocr_calls :
        "page_num" \in DOMAIN ocr_calls[i] =>
            /\ HasSecondArg
            /\ ocr_calls[i]["page_num"].t = "int"
            /\ ocr_calls[i]["page_num"].v >= 1
                  <=> /\ \A k \in 1..Len(argv[3]) : argv[3][k] # "-"
                      /\ \E k \in 1..Len(argv[3]) : argv[3][k] \in Digits \ {"0"}

C9_Witness ==
    /\ ocr_calls # <<>>
    /\ "page_num" \in DOMAIN ocr_calls[1]
    /\ ocr_calls[1]["page_num"].v < 1

\* C10: with a second argument that is non-empty and not an integer literal,
\* the run never invokes ocr_document and never writes to stdout, and it ends
\* with a message on stderr and exit code 1.
C10_BadPageNumFailsBeforeCall ==
    (HasSecondArg /\ argv[3] # <<>> /\ ~IsIntegerLiteral(argv[3])) =>
        /\ ocr_calls = <<>>
        /\ stdout = <<>>
        /\ Exited => (stderr # <<>> /\ exit_code = 1)

C10_Witness ==
    /\ HasSecondArg
    /\ argv[3] # <<>>
    /\ ~IsIntegerLiteral(argv[3])
    /\ Exited
    /\ stderr # <<>>

====
